---- MODULE Spec2Model ----
(***************************************************************************)
(* Persistence layer of rksmanager: the schema migration engine and the    *)
(* store-kind check of rksmanager/database.py (class Database), and the    *)
(* change-tracked entity model of rksmanager/database/models.py (DbObject, *)
(* Person).                                                                *)
(***************************************************************************)
EXTENDS Integers, Sequences, FiniteSets, Bags, TLC

(***************************************************************************)
(* Bounds of the model.                                                    *)
(***************************************************************************)
MaxScript == 3       \* highest version number carried by a script file
MaxFiles == 3        \* number of script files in the migrations directory
NStmts == 2          \* statements per migration script (script.split(";"))
MaxBadScripts == 1   \* script files holding a statement that sqlite rejects
MaxVersion == 3      \* highest user_version of a file that already exists

(***************************************************************************)
(* Program constants.                                                      *)
(***************************************************************************)
sqlite_application_id == 1253295661      \* 0x4ab3c62d

\* application_id values a file can carry: 0 (never set), ours, another
\* program's.
ApplicationIds == {0, sqlite_application_id, 7}

VARIABLES
    file,                          \* the sqlite file named by db_filename
    migrations_dir,                \* listing of migrations/ in iterdir() order
    expected_sqlite_user_version,  \* Database.expected_sqlite_user_version
    connection,                    \* Database._connection of the last Database
    last,                          \* record of the last call and its outcome
    db,                            \* the tables of the open, migrated store
    obj,                           \* the Person object the caller holds
    elast,                         \* record of the last call on the entity
    steps                          \* calls made so far

vars == <<file, migrations_dir, expected_sqlite_user_version, connection, last,
          db, obj, elast, steps>>

migration_vars ==
    <<file, migrations_dir, expected_sqlite_user_version, connection, last>>

entity_vars == <<db, obj, elast, steps>>

(***************************************************************************)
(* The sqlite file.  exists: the file is on disk before sqlite3.connect;   *)
(* application_id, user_version, schema_version: the header pragmas;       *)
(* effects: the statements of migration scripts whose result is committed, *)
(* as <<script version, statement number>>.                                *)
(***************************************************************************)
ScriptStatements(version) == {<<version, k>> : k \in 1..NStmts}

EffectsUpTo(version) == UNION {ScriptStatements(v) : v \in 1..version}

NewFile ==
    [exists |-> FALSE, application_id |-> 0, user_version |-> 0,
     schema_version |-> 0, effects |-> {}]

get_sqlite_user_version(store) == store.user_version

get_sqlite_schema_version(store) == store.schema_version

(***************************************************************************)
(* Database.apply_migrations.  A transaction t is the working copy of the  *)
(* file after "begin transaction", with the trace of the call:             *)
(*   examined: <<script_version, current_version>> of every file reached,  *)
(*   executed: <<script_version, user_version before, after>> of every     *)
(*             script whose statements all ran,                            *)
(*   raised:   an exception left the try block.                            *)
(***************************************************************************)
BeginTransaction(store) ==
    [store |-> store, examined |-> <<>>, executed |-> <<>>, raised |-> FALSE]

RECURSIVE ExecuteStatements(_, _, _)
\* for statement in script.split(";"): self._connection.execute(statement)
ExecuteStatements(script, k, t) ==
    IF k > NStmts THEN t
    ELSE IF script.fail_at = k THEN [t EXCEPT !.raised = TRUE]
    ELSE ExecuteStatements(script, k + 1,
            [t EXCEPT !.store.effects = @ \cup {<<script.version, k>>},
                      !.store.schema_version = @ + 1])

\* if script_version <= current_version: continue
skip_script_reapplies(script_version, current_version) ==
    script_version < current_version

skip_script(script_version, current_version) ==
    script_version <= current_version

too_high_ignores_gap(script_version, current_version, expected_version) ==
    script_version > expected_version

too_high_ignores_expected(script_version, current_version, expected_version) ==
    script_version # current_version + 1

too_high(script_version, current_version, expected_version) ==
    \/ script_version > expected_version
    \/ script_version # current_version + 1

RECURSIVE MigrationLoop(_, _, _, _)
\* for migration_file in migrations_dir.iterdir(): ...
MigrationLoop(files, i, expected_version, t) ==
    IF i > Len(files) \/ t.raised THEN t
    ELSE
      LET script_version == files[i].version
          current_version == get_sqlite_user_version(t.store)
          seen == [t EXCEPT !.examined =
                       Append(@, <<script_version, current_version>>)]
      IN IF skip_script(script_version, current_version)
         THEN MigrationLoop(files, i + 1, expected_version, seen)
         ELSE IF too_high(script_version, current_version, expected_version)
         THEN [seen EXCEPT !.raised = TRUE]
         ELSE
           LET ran == ExecuteStatements(files[i], 1, seen)
           IN IF ran.raised THEN ran
              ELSE MigrationLoop(files, i + 1, expected_version,
                     [ran EXCEPT
                        !.store.user_version = script_version,
                        !.executed = Append(@, <<script_version,
                                                 current_version,
                                                 script_version>>)])

\* if self.get_sqlite_user_version() < expected_version: raise
FinalVersionCheck(expected_version, t) ==
    IF ~t.raised /\ get_sqlite_user_version(t.store) < expected_version
    THEN [t EXCEPT !.raised = TRUE]
    ELSE t

\* except Exception: self._connection.rollback()
RollbackMissing(store, t) == t.store

Rollback(store, t) == store

\* self._connection.commit()
Commit(store, t) == t.store

\* The whole call: the file it leaves and the trace of the call.
apply_migrations(store, files, expected_version) ==
    LET t == FinalVersionCheck(expected_version,
                 MigrationLoop(files, 1, expected_version,
                               BeginTransaction(store)))
    IN [store |-> IF t.raised THEN Rollback(store, t) ELSE Commit(store, t),
        pre |-> store,
        work |-> t.store,
        examined |-> t.examined,
        executed |-> t.executed,
        raised |-> t.raised]

NoMigration == [called |-> FALSE]

MigrationCall(m) == [called |-> TRUE] @@ m

(***************************************************************************)
(* Database.__init__: connect, and for a file with schema_version 0 write  *)
(* the application_id (a pragma outside any transaction, committed at      *)
(* once) and apply the migrations; then check the application_id.          *)
(***************************************************************************)
MarkAsOursAlways(store) ==
    [store EXCEPT !.application_id = sqlite_application_id]

MarkAsOurs(store) ==
    IF get_sqlite_schema_version(store) = 0
    THEN [store EXCEPT !.application_id = sqlite_application_id]
    ELSE store

Connect(store) == [store EXCEPT !.exists = TRUE]

Open ==
    /\ connection # "open"
    /\ LET connected == Connect(file)
           is_new == get_sqlite_schema_version(connected) = 0
           marked == MarkAsOurs(connected)
           m == apply_migrations(marked, migrations_dir,
                                 expected_sqlite_user_version)
       IN IF is_new /\ m.raised
          THEN \* apply_migrations raised out of __init__: close() not called
               /\ file' = m.store
               /\ connection' = "unclosed"
               /\ last' = [op |-> "init", raised |-> TRUE, pre |-> file,
                           mig |-> MigrationCall(m)]
          ELSE LET store == IF is_new THEN m.store ELSE marked
                   app_id == store.application_id
               IN /\ file' = store
                  /\ connection' = IF app_id # sqlite_application_id
                                   THEN "closed" ELSE "open"
                  /\ last' = [op |-> "init",
                              raised |-> app_id # sqlite_application_id,
                              pre |-> file,
                              mig |-> IF is_new THEN MigrationCall(m)
                                      ELSE NoMigration]
    /\ UNCHANGED <<migrations_dir, expected_sqlite_user_version>>
    /\ UNCHANGED entity_vars

\* A caller invokes apply_migrations on an open Database.
ApplyMigrations ==
    /\ connection = "open"
    /\ LET m == apply_migrations(file, migrations_dir,
                                 expected_sqlite_user_version)
       IN /\ file' = m.store
          /\ last' = [op |-> "apply_migrations", raised |-> m.raised,
                      pre |-> file, mig |-> MigrationCall(m)]
    /\ UNCHANGED <<migrations_dir, expected_sqlite_user_version, connection>>
    /\ UNCHANGED entity_vars

\* Database.close
Close ==
    /\ connection = "open"
    /\ connection' = "closed"
    /\ last' = [op |-> "close", raised |-> FALSE, pre |-> file,
                mig |-> NoMigration]
    /\ UNCHANGED <<file, migrations_dir, expected_sqlite_user_version>>
    /\ UNCHANGED entity_vars

(***************************************************************************)
(* Initial states: any listing of script files, at most MaxBadScripts of   *)
(* them holding a statement that fails; a file that does not exist yet, an *)
(* empty file (schema_version 0) with any application_id, or a file with a *)
(* schema, any application_id and any user_version.                        *)
(***************************************************************************)
ScriptFiles == [version : 1..MaxScript, fail_at : 0..NStmts]

Listings == UNION {[1..n -> ScriptFiles] : n \in 0..MaxFiles}

BadScripts(files) == {i \in 1..Len(files) : files[i].fail_at # 0}

ExistingFiles ==
    {[exists |-> TRUE, application_id |-> a, user_version |-> 0,
      schema_version |-> 0, effects |-> {}] : a \in ApplicationIds}
    \cup
    {[exists |-> TRUE, application_id |-> a, user_version |-> v,
      schema_version |-> 1, effects |-> EffectsUpTo(v)] :
        a \in ApplicationIds, v \in 0..MaxVersion}


(***************************************************************************)
(* Values.  Every value of a column is a string: None stands for Python's  *)
(* None and SQL NULL, True for the bool that the adapter stores as 1.      *)
(* A str item of a collection is named by a string of ItemStrings and      *)
(* Chars gives its characters (what iterating the str yields); a tuple     *)
(* item is a sequence of column values.                                    *)
(***************************************************************************)
None == "None"

True == "True"

ScalarValues == {"a", "b"}

ItemStrings == {"x", "yz"}

MoreStrings == {"v", "w"}

Chars == [s \in ItemStrings \cup MoreStrings \cup {"y"} |->
            IF s = "yz" THEN <<"y", "z">> ELSE <<s>>]

TupleItems == {<<"t1", "c1">>, <<"t1", "c2">>}

MoreTuples == {<<"t2", "c1">>, <<"t2", "c2">>}

EmptyDict == [k \in {} |-> None]

\* dict.update(other) / d[k] = v
DictUpdate(d, other) ==
    [k \in DOMAIN d \cup DOMAIN other |->
        IF k \in DOMAIN other THEN other[k] ELSE d[k]]

DictSet(d, k, v) == DictUpdate(d, [x \in {k} |-> v])

\* dict.pop(k, None)
DictPop(d, k) == [x \in DOMAIN d \ {k} |-> d[x]]

\* dict.get(k) with default None
DictGet(d, k) == IF k \in DOMAIN d THEN d[k] ELSE None

\* dict(zip(keys, values)): pairs up to the shorter of the two
DictZip(keys, values) ==
    LET n == IF Len(keys) < Len(values) THEN Len(keys) ELSE Len(values)
    IN [k \in {keys[i] : i \in 1..n} |->
           values[CHOOSE i \in 1..n : keys[i] = k]]

(***************************************************************************)
(* The tables the entity model and save_person write, with the columns the *)
(* statements of database.py name.  A table is a bag of rows; a row maps   *)
(* each column to its value.                                               *)
(***************************************************************************)
TableColumns ==
    [people |-> {"id", "first_name_or_nickname", "pronouns", "notes"},
     people_aliases |-> {"person_id", "alias"},
     people_email_addresses |->
         {"person_id", "email_address", "primary_email"},
     people_other_contact_info |->
         {"person_id", "other_contact_info_type_id", "contact_info"}]

EmptyTables == [tbl \in DOMAIN TableColumns |-> EmptyBag]

\* "col = :param" is never true for a NULL parameter or a NULL column.
Matches(row, where_conditions) ==
    \A c \in DOMAIN where_conditions :
        where_conditions[c] # None /\ row[c] = where_conditions[c]

\* A row after "update ... set column_values where where_conditions".
UpdatedRow(row, stmt) ==
    IF Matches(row, stmt.where_conditions)
    THEN DictUpdate(row, stmt.column_values)
    ELSE row

RECURSIVE UpdatedBag(_, _, _)
\* The rows of a bag after an update statement, copy by copy.
UpdatedBag(bag, rows, stmt) ==
    IF rows = {} THEN EmptyBag
    ELSE LET r == CHOOSE x \in rows : TRUE
         IN [x \in {UpdatedRow(r, stmt)} |-> bag[r]]
            (+) UpdatedBag(bag, rows \ {r}, stmt)

\* lastrowid of an insert into people: integer primary key, rows of people
\* are never deleted.
NextId(bag) == "p" \o ToString(BagCardinality(bag) + 1)

InsertedRow(table, column_values, bag) ==
    [c \in TableColumns[table] |->
        IF c \in DOMAIN column_values THEN column_values[c]
        ELSE IF c = "id" THEN NextId(bag)
        ELSE None]

\* The effect of one statement that sqlite accepts.
ApplySql(tables, stmt) ==
    LET bag == tables[stmt.table]
    IN CASE stmt.kind = "insert" ->
              [tables EXCEPT ![stmt.table] =
                  bag (+) SetToBag({InsertedRow(stmt.table,
                                                stmt.column_values, bag)})]
         [] stmt.kind = "update" ->
              [tables EXCEPT ![stmt.table] =
                  UpdatedBag(bag, BagToSet(bag), stmt)]
         [] stmt.kind = "delete" ->
              [tables EXCEPT ![stmt.table] =
                  [r \in {x \in BagToSet(bag) :
                             ~Matches(x, stmt.where_conditions)} |-> bag[r]]]

\* "insert into t () values ()" and "update t set  where ..." are syntax
\* errors for sqlite: a statement built from an empty column_values raises.
SyntaxError(stmt) ==
    stmt.kind \in {"insert", "update"} /\ DOMAIN stmt.column_values = {}

(***************************************************************************)
(* Statements inside "with self._connection:".  t.tables is the working    *)
(* copy, t.log the statements passed to execute() in order, t.raised says  *)
(* that an exception is propagating; fail_at is the position of the        *)
(* statement that sqlite rejects for a constraint (0: none).               *)
(***************************************************************************)
EnterConnection(tables) == [tables |-> tables, log |-> <<>>, raised |-> FALSE]

Execute(t, stmt, fail_at) ==
    IF t.raised THEN t
    ELSE LET log == Append(t.log, stmt)
         IN IF SyntaxError(stmt) \/ Len(log) = fail_at
            THEN [t EXCEPT !.log = log, !.raised = TRUE]
            ELSE [t EXCEPT !.log = log,
                           !.tables = ApplySql(t.tables, stmt)]

RECURSIVE ExecuteAll(_, _, _)
ExecuteAll(t, stmts, fail_at) ==
    IF stmts = <<>> THEN t
    ELSE ExecuteAll(Execute(t, Head(stmts), fail_at), Tail(stmts), fail_at)

\* Connection.__exit__: commit when the block ended normally, roll back
\* when an exception left it.
ExitConnectionCommitsAlways(tables, t) == t.tables

ExitConnection(tables, t) == IF t.raised THEN tables ELSE t.tables

(***************************************************************************)
(* Database._dynamic_insert, _dynamic_update, _dynamic_delete: the         *)
(* statement each builds.  _dynamic_insert has no return statement: its    *)
(* caller receives None.                                                   *)
(***************************************************************************)
_dynamic_insert(table, column_values) ==
    [kind |-> "insert", table |-> table, column_values |-> column_values,
     where_conditions |-> EmptyDict]

_dynamic_insert_result == None

_dynamic_update(table, column_values, where_conditions) ==
    [kind |-> "update", table |-> table, column_values |-> column_values,
     where_conditions |-> where_conditions]

_dynamic_delete(table, where_conditions) ==
    [kind |-> "delete", table |-> table, column_values |-> EmptyDict,
     where_conditions |-> where_conditions]

(***************************************************************************)
(* Database._update_collection.  update_column is [str |-> c] when the     *)
(* caller passes one column name and [tuple |-> <<c1, ...>>] when it       *)
(* passes a tuple of names.  set() iterates in an order the caller does    *)
(* not control: every order of the two difference sets gives a plan.       *)
(***************************************************************************)
Range(seq) == {seq[i] : i \in DOMAIN seq}

Orders(set) ==
    {s \in [1..Cardinality(set) -> set] :
        \A i, j \in DOMAIN s : i # j => s[i] # s[j]}

isinstance_str(update_column) == "str" \in DOMAIN update_column

UpdateColumns(update_column) ==
    IF isinstance_str(update_column) THEN <<update_column.str>>
    ELSE update_column.tuple

\* What zip(update_columns, element) pairs the columns with: for a column
\* name given as str the element is the tuple (item,); else the element is
\* the item itself, and a str item (the items of a one-column collection)
\* is iterated character by character.
ZipValues(update_column, item) ==
    IF isinstance_str(update_column) THEN <<item>>
    ELSE IF Len(update_column.tuple) = 1 THEN Chars[item]
    ELSE item

\* itertools.zip_longest(remove_tuples, add_tuples) and the statement of
\* each pair.
CollectionPlanDeleteThenInsert(table, filter_column, update_column, filter_value, removes, adds) ==
    LET update_columns == UpdateColumns(update_column)
        old_where(i) ==
            DictSet(DictZip(update_columns,
                            ZipValues(update_column, removes[i])),
                    filter_column, filter_value)
        set_values(i) ==
            DictZip(update_columns, ZipValues(update_column, adds[i]))
    IN [i \in 1..(Len(removes) + Len(adds)) |->
          IF i <= Len(removes)
          THEN _dynamic_delete(table, old_where(i))
          ELSE _dynamic_insert(table,
                  DictSet(set_values(i - Len(removes)), filter_column,
                          filter_value))]

CollectionPlan(table, filter_column, update_column, filter_value, removes, adds) ==
    LET update_columns == UpdateColumns(update_column)
        n == IF Len(removes) > Len(adds) THEN Len(removes) ELSE Len(adds)
        old_where(i) ==
            DictSet(DictZip(update_columns,
                            ZipValues(update_column, removes[i])),
                    filter_column, filter_value)
        set_values(i) ==
            DictZip(update_columns, ZipValues(update_column, adds[i]))
    IN [i \in 1..n |->
          IF i <= Len(removes) /\ i <= Len(adds)
          THEN _dynamic_update(table, set_values(i), old_where(i))
          ELSE IF i <= Len(removes)
          THEN _dynamic_delete(table, old_where(i))
          ELSE _dynamic_insert(table, DictSet(set_values(i), filter_column,
                                              filter_value))]

\* The statement sequences _update_collection may issue.
_update_collection(table, filter_column, update_column, filter_value, old_items, new_items) ==
    LET old_tuples == Range(old_items)
        new_tuples == Range(new_items)
        remove_tuples == old_tuples \ new_tuples
        add_tuples == new_tuples \ old_tuples
    IN {CollectionPlan(table, filter_column, update_column, filter_value,
                       removes, adds) :
            removes \in Orders(remove_tuples), adds \in Orders(add_tuples)}

(***************************************************************************)
(* Database._get_collection: the lists the select may return.  Without     *)
(* "order by" the order of the rows is sqlite's choice; with it, rows are  *)
(* sorted on the column (NULL is lowest) and ties are sqlite's choice.     *)
(***************************************************************************)
MatchingRows(bag, where_conditions) ==
    [r \in {x \in BagToSet(bag) : Matches(x, where_conditions)} |-> bag[r]]

Arrangements(bag) ==
    {s \in [1..BagCardinality(bag) -> BagToSet(bag)] :
        \A r \in BagToSet(bag) :
            Cardinality({i \in DOMAIN s : s[i] = r}) = bag[r]}

SortRank(v) == IF v = None THEN 0 ELSE 1

Sorted(rows, order_by_column, order_ascending) ==
    \/ order_by_column = None
    \/ \A i, j \in DOMAIN rows :
          i < j => IF order_ascending
                   THEN SortRank(rows[i][order_by_column])
                          <= SortRank(rows[j][order_by_column])
                   ELSE SortRank(rows[i][order_by_column])
                          >= SortRank(rows[j][order_by_column])

\* [tuple(row) for row in rows] for several columns, [row[0] ...] for one
RowItem(row, get_columns) ==
    IF Len(get_columns) > 1
    THEN [i \in 1..Len(get_columns) |-> row[get_columns[i]]]
    ELSE row[get_columns[1]]

_get_collection(tables, table, filter_column, get_columns, filter_value, order_by_column, order_ascending) ==
    LET found == MatchingRows(tables[table],
                              [c \in {filter_column} |-> filter_value])
    IN {[i \in DOMAIN rows |-> RowItem(rows[i], get_columns)] :
          rows \in {a \in Arrangements(found) :
                       Sorted(a, order_by_column, order_ascending)}}

(***************************************************************************)
(* The entity descriptors of class Person.                                 *)
(***************************************************************************)
Person ==
    [table |-> "people",
     columns |-> <<"first_name_or_nickname", "pronouns", "notes">>,
     collections |->
        <<[name |-> "aliases", table |-> "people_aliases",
           columns |-> <<"alias">>, foreign_key |-> "person_id",
           primary_column |-> None],
          [name |-> "email_addresses", table |-> "people_email_addresses",
           columns |-> <<"email_address">>, foreign_key |-> "person_id",
           primary_column |-> "primary_email"],
          [name |-> "other_contact_info",
           table |-> "people_other_contact_info",
           columns |-> <<"other_contact_info_type_id", "contact_info">>,
           foreign_key |-> "person_id", primary_column |-> None]>>,
     joins |->
        <<[table |-> "people_email_addresses",
           columns |-> <<"email_address">>, foreign_key |-> "person_id",
           condition |-> [primary_email |-> True]]>>]

CollectionNames == {Person.collections[i].name : i \in DOMAIN Person.collections}

CollectionNamed(name) ==
    Person.collections[CHOOSE i \in DOMAIN Person.collections :
                           Person.collections[i].name = name]

\* The lists a caller may assign to a collection.
ItemsOf(collection) ==
    IF Len(collection.columns) = 1 THEN ItemStrings ELSE TupleItems

(***************************************************************************)
(* DbObject.  An object is its _id, its _new_values and _db_values dicts   *)
(* and the entries of its instance __dict__ that a caller has rebound.     *)
(* inserted counts the rows of Person.table that committed saves of this   *)
(* object have inserted.                                                   *)
(***************************************************************************)
NoObject ==
    [constructed |-> FALSE, id |-> None, new_values |-> EmptyDict,
     db_values |-> EmptyDict, rebound |-> EmptyDict, inserted |-> 0]

\* DbObject.__init__ before "if id: self._load()"
ConstructedWithDefaults(id) ==
    [NoObject EXCEPT !.constructed = TRUE, !.id = id,
                     !.new_values = [c \in {"first_name_or_nickname",
                                            "pronouns", "notes"} |-> ""]]

Constructed(id) == [NoObject EXCEPT !.constructed = TRUE, !.id = id]

\* DbObject._dynamic_select with condition "people.id = :id": the rows of
\* the left join with the rows of the join table that meet its condition,
\* each as the dict of its keys other than id.
_dynamic_select_without_join_condition(tables, id) ==
    LET join == Person.joins[1]
        people == {r \in BagToSet(tables[Person.table]) :
                      Matches(r, [id |-> id])}
        joined(r) == {e \in BagToSet(tables[join.table]) :
                         Matches(e, [c \in {join.foreign_key} |-> r.id])}
        scalars(r) == [c \in Range(Person.columns) |-> r[c]]
    IN UNION {IF joined(r) = {}
              THEN {DictSet(scalars(r), join.columns[1], None)}
              ELSE {DictSet(scalars(r), join.columns[1],
                            e[join.columns[1]]) : e \in joined(r)} :
              r \in people}

_dynamic_select(tables, id) ==
    LET join == Person.joins[1]
        people == {r \in BagToSet(tables[Person.table]) :
                      Matches(r, [id |-> id])}
        joined(r) == {e \in BagToSet(tables[join.table]) :
                         /\ Matches(e, [c \in {join.foreign_key} |-> r.id])
                         /\ Matches(e, join.condition)}
        scalars(r) == [c \in Range(Person.columns) |-> r[c]]
    IN UNION {IF joined(r) = {}
              THEN {DictSet(scalars(r), join.columns[1], None)}
              ELSE {DictSet(scalars(r), join.columns[1],
                            e[join.columns[1]]) : e \in joined(r)} :
              r \in people}

\* DbObject._load: the objects it may leave; none when the select returns
\* no row and "[0]" raises IndexError.
_load_any_person(o, tables) ==
    {[o EXCEPT !.db_values = DictUpdate(@, row)] :
        row \in UNION {_dynamic_select(tables, r.id) :
                          r \in BagToSet(tables[Person.table])}}

_load(o, tables) ==
    {[o EXCEPT !.db_values = DictUpdate(@, row)] :
        row \in _dynamic_select(tables, o.id)}

\* DbObject._load_collection: the object and the value it returns.
_load_collection(o, tables, collection) ==
    {[obj |-> [o EXCEPT !.db_values = DictSet(@, collection.name, value)],
      value |-> value] :
        value \in _get_collection(tables, collection.table,
                                  collection.foreign_key, collection.columns,
                                  o.id, collection.primary_column, FALSE)}

\* Collection.__get__
Collection__get__reloads(o, tables, collection) ==
    IF o.id # None
    THEN {[l.obj EXCEPT !.new_values =
                            DictSet(@, collection.name, l.value)] :
             l \in _load_collection(o, tables, collection)}
    ELSE {[o EXCEPT !.new_values = DictSet(@, collection.name, <<>>)]}

Collection__get__(o, tables, collection) ==
    IF collection.name \notin DOMAIN o.new_values
    THEN IF o.id # None
         THEN {[l.obj EXCEPT !.new_values =
                                 DictSet(@, collection.name, l.value)] :
                  l \in _load_collection(o, tables, collection)}
         ELSE {[o EXCEPT !.new_values = DictSet(@, collection.name, <<>>)]}
    ELSE {o}

\* The selects one call of Collection.__get__ executes.
Collection__get__queries(o, collection) ==
    IF collection.name \notin DOMAIN o.new_values /\ o.id # None
    THEN 1 ELSE 0

\* The selects DbObject.__init__ executes: "if id: self._load()".
DbObject__init__queries(id) == IF id # None THEN 1 ELSE 0

\* DbObjectAttribute.__get__
DbObjectAttribute__get__(o, name) ==
    IF name \in DOMAIN o.new_values THEN o.new_values[name]
    ELSE DictGet(o.db_values, name)

\* DbObjectAttribute.__set__
DbObjectAttribute__set__(o, name, value) ==
    [o EXCEPT !.new_values = DictSet(@, name, value)]

(***************************************************************************)
(* DbObject.save.                                                          *)
(***************************************************************************)
\* Only save changed column values
ChangedColumnValuesAllAssigned(o) ==
    [k \in DOMAIN o.new_values \cap Range(Person.columns) |->
        o.new_values[k]]

ChangedColumnValues(o) ==
    [k \in {c \in DOMAIN o.new_values \cap Range(Person.columns) :
               o.new_values[c] # DictGet(o.db_values, c)} |->
        o.new_values[k]]

\* The statements that make the first item primary.
PrimaryStatementsClearOnly(collection, id, old_items, new_items) ==
    IF collection.primary_column # None /\ new_items # <<>>
    THEN <<_dynamic_update(collection.table,
              [c \in {collection.primary_column} |-> None],
              [c \in {collection.foreign_key} |-> id])>>
    ELSE <<>>

PrimaryStatements(collection, id, old_items, new_items) ==
    IF collection.primary_column # None /\ new_items # <<>>
    THEN LET first_item == IF Len(collection.columns) = 1
                           THEN <<new_items[1]>>
                           ELSE new_items[1]
             fk == [c \in {collection.foreign_key} |-> id]
             flag(v) == [c \in {collection.primary_column} |-> v]
         IN (IF old_items # <<>>
             THEN <<_dynamic_update(collection.table, flag(None), fk)>>
             ELSE <<>>)
            \o <<_dynamic_update(collection.table, flag(True),
                    DictUpdate(DictZip(collection.columns, first_item), fk))>>
    ELSE <<>>

\* The body of "for collection in self.collections" for one touched
\* collection: the objects and transactions it may end with.
SaveCollection(collection, is_new, fail_at, o, t) ==
    LET new_items == o.new_values[collection.name]
        olds == IF is_new THEN {[obj |-> o, value |-> <<>>]}
                ELSE IF collection.name \notin DOMAIN o.db_values
                THEN _load_collection(o, t.tables, collection)
                ELSE {[obj |-> o, value |-> o.db_values[collection.name]]}
        finish(old, plan) ==
            LET done == ExecuteAll(t,
                          plan \o PrimaryStatements(collection, old.obj.id,
                                                    old.value, new_items),
                          fail_at)
            IN [obj |-> IF done.raised THEN old.obj
                        ELSE [old.obj EXCEPT !.db_values =
                                 DictSet(@, collection.name, new_items)],
                t |-> done]
    IN UNION {{finish(old, plan) :
                 plan \in _update_collection(collection.table,
                             collection.foreign_key,
                             [tuple |-> collection.columns],
                             old.obj.id, old.value, new_items)} :
              old \in olds}

RECURSIVE SaveCollectionsWritesUntouched(_, _, _, _, _)
RECURSIVE SaveCollections(_, _, _, _, _)
SaveCollectionsWritesUntouched(i, is_new, fail_at, o, t) ==
    IF i > Len(Person.collections) \/ t.raised THEN {[obj |-> o, t |-> t]}
    ELSE LET name == Person.collections[i].name
             touched == IF name \in DOMAIN o.new_values THEN o
                        ELSE [o EXCEPT !.new_values = DictSet(@, name, <<>>)]
         IN UNION {SaveCollectionsWritesUntouched(i + 1, is_new, fail_at,
                                                  r.obj, r.t) :
                     r \in SaveCollection(Person.collections[i], is_new,
                                          fail_at, touched, t)}

SaveCollections(i, is_new, fail_at, o, t) ==
    IF i > Len(Person.collections) \/ t.raised THEN {[obj |-> o, t |-> t]}
    ELSE IF Person.collections[i].name \notin DOMAIN o.new_values
    THEN SaveCollections(i + 1, is_new, fail_at, o, t)
    ELSE UNION {SaveCollections(i + 1, is_new, fail_at, r.obj, r.t) :
                  r \in SaveCollection(Person.collections[i], is_new,
                                       fail_at, o, t)}

\* The outcomes of one call of save(): the object, the committed tables,
\* and the trace of the transaction.
save(o, tables, fail_at) ==
    LET column_values == ChangedColumnValues(o)
        is_new == o.id = None
        stmt == IF is_new
                THEN _dynamic_insert(Person.table, column_values)
                ELSE _dynamic_update(Person.table, column_values,
                                     [id |-> o.id])
        t1 == Execute(EnterConnection(tables), stmt, fail_at)
        o1 == IF t1.raised THEN o
              ELSE [o EXCEPT
                      !.id = IF is_new THEN _dynamic_insert_result ELSE @,
                      !.db_values = DictUpdate(@, column_values)]
    IN {[obj |-> IF is_new /\ ~e.t.raised
                 THEN [e.obj EXCEPT !.inserted = @ + 1] ELSE e.obj,
         tables |-> ExitConnection(tables, e.t),
         work |-> e.t.tables,
         log |-> e.t.log,
         raised |-> e.t.raised] :
           e \in SaveCollections(1, is_new, fail_at, o1, t1)}

(***************************************************************************)
(* The calls a holder of the Database makes on a Person.                   *)
(***************************************************************************)
MaxOps == 5          \* calls in one behaviour
MaxItems == 2        \* items in a list assigned to a collection
MaxFailAt == 4       \* position of the statement that sqlite may reject

NoCall ==
    [op |-> "none", raised |-> FALSE, pre_db |-> EmptyTables,
     pre_obj |-> NoObject, log |-> <<>>, work |-> EmptyTables,
     queries |-> 0]

\* The record of a call that issues no statement.
Call(op, raised) == [NoCall EXCEPT !.op = op, !.raised = raised]

Step == steps < MaxOps /\ steps' = steps + 1

PersonIds == {r.id : r \in BagToSet(db[Person.table])}

\* Person(db)
NewEntity ==
    /\ Step
    /\ ~obj.constructed
    /\ obj' = Constructed(None)
    /\ elast' = [Call("new", FALSE) EXCEPT
                   !.queries = DbObject__init__queries(None)]
    /\ UNCHANGED db

\* Person(db, id)
LoadEntity ==
    /\ Step
    /\ ~obj.constructed
    /\ \E id \in PersonIds \cup {NextId(db[Person.table])} :
         LET loaded == _load(Constructed(id), db)
         IN IF loaded = {}
            THEN /\ obj' = NoObject
                 /\ elast' = [Call("load", TRUE) EXCEPT
                                !.queries = DbObject__init__queries(id)]
            ELSE \E o \in loaded :
                   /\ obj' = o
                   /\ elast' = [Call("load", FALSE) EXCEPT
                                  !.queries = DbObject__init__queries(id)]
    /\ UNCHANGED db

\* person.first_name_or_nickname = value: the DbObjectAttribute stored in
\* the instance __dict__ by __init__ is not a descriptor of the type, so the
\* assignment rebinds the instance attribute and __set__ is not called.
AssignAttribute ==
    /\ Step
    /\ obj.constructed
    /\ \E name \in {Person.columns[1]}, value \in ScalarValues :
          obj' = [obj EXCEPT !.rebound = DictSet(@, name, value)]
    /\ elast' = Call("assign", FALSE)
    /\ UNCHANGED db

\* JoinedAttribute.__get__
JoinedAttribute__get__(o, name) == DictGet(o.db_values, name)

\* JoinedAttribute.__set__: raises AttributeError
JoinedAttribute__set__(o, name, value) == [obj |-> o, raised |-> TRUE]

\* JoinedAttribute.__set__(obj, value) of the joined column
SetJoined ==
    /\ Step
    /\ obj.constructed
    /\ \E value \in ItemStrings \cup {None} :
          LET out == JoinedAttribute__set__(obj, Person.joins[1].columns[1],
                                            value)
          IN /\ obj' = out.obj
             /\ elast' = Call("set_joined", out.raised)
    /\ UNCHANGED db

\* DbObjectAttribute.__set__(obj, value) of a column
SetScalar ==
    /\ Step
    /\ obj.constructed
    /\ \E name \in Range(Person.columns),
          value \in ScalarValues \cup {None} :
          obj' = DbObjectAttribute__set__(obj, name, value)
    /\ elast' = Call("set", FALSE)
    /\ UNCHANGED db

Lists(items) == UNION {[1..n -> items] : n \in 0..MaxItems}

\* DbObjectAttribute.__set__(obj, value) of a collection
SetCollection ==
    /\ Step
    /\ obj.constructed
    /\ \E name \in CollectionNames :
         \E value \in Lists(ItemsOf(CollectionNamed(name))) :
            obj' = DbObjectAttribute__set__(obj, name, value)
    /\ elast' = Call("set_collection", FALSE)
    /\ UNCHANGED db

\* Collection.__get__(obj, objtype)
GetCollection ==
    /\ Step
    /\ obj.constructed
    /\ \E name \in CollectionNames :
         \E o \in Collection__get__(obj, db, CollectionNamed(name)) :
            /\ obj' = o
            /\ elast' = [op |-> "get_collection", raised |-> FALSE,
                         name |-> name, pre_obj |-> obj,
                         value |-> o.new_values[name],
                         queries |-> Collection__get__queries(obj,
                                         CollectionNamed(name))]
    /\ UNCHANGED db

\* person.save()
Save ==
    /\ Step
    /\ obj.constructed
    /\ \E fail_at \in 0..MaxFailAt :
         \E out \in save(obj, db, fail_at) :
            /\ obj' = out.obj
            /\ db' = out.tables
            /\ elast' = [op |-> "save", raised |-> out.raised,
                         pre_db |-> db, pre_obj |-> obj,
                         log |-> out.log, work |-> out.work]

\* person.db_changed()
DbChanged ==
    /\ Step
    /\ obj.constructed
    /\ IF obj.id # None
       THEN LET loaded == _load(obj, db)
            IN IF loaded = {}
               THEN obj' = obj /\ elast' = Call("db_changed", TRUE)
               ELSE \E o \in loaded :
                      /\ obj' = [o EXCEPT !.db_values =
                                   [k \in DOMAIN @ \ CollectionNames |-> @[k]]]
                      /\ elast' = Call("db_changed", FALSE)
       ELSE obj' = obj /\ elast' = Call("db_changed", FALSE)
    /\ UNCHANGED db

(***************************************************************************)
(* Initial states of the entity model: the store is open and migrated,     *)
(* and holds no person, or a person written by Database.save_person.       *)
(***************************************************************************)
StoredPerson(aliases, email_addresses, other_contact_info) ==
    [people |-> SetToBag({[id |-> "p1", first_name_or_nickname |-> "a",
                           pronouns |-> None, notes |-> None]}),
     people_aliases |->
        SetToBag({[person_id |-> "p1", alias |-> a] : a \in aliases}),
     people_email_addresses |->
        SetToBag({[person_id |-> "p1", email_address |-> e[1],
                   primary_email |-> e[2]] : e \in email_addresses}),
     people_other_contact_info |->
        SetToBag({[person_id |-> "p1", other_contact_info_type_id |-> i[1],
                   contact_info |-> i[2]] : i \in other_contact_info})]

InitialStores ==
    {EmptyTables,
     StoredPerson({}, {}, {}),
     StoredPerson({"x", "yz"}, {<<"x", True>>, <<"yz", None>>},
                  {<<"t1", "c1">>})}

MigratedFile ==
    [exists |-> TRUE, application_id |-> sqlite_application_id,
     user_version |-> 1, schema_version |-> NStmts,
     effects |-> EffectsUpTo(1)]

Init ==
    /\ migrations_dir = <<[version |-> 1, fail_at |-> 0]>>
    /\ expected_sqlite_user_version = 1
    /\ file = MigratedFile
    /\ connection = "open"
    /\ last = [op |-> "none", raised |-> FALSE, pre |-> file,
               mig |-> NoMigration]
    /\ db \in InitialStores
    /\ obj = NoObject
    /\ elast = NoCall
    /\ steps = 0

Next ==
    /\ \/ NewEntity
       \/ LoadEntity
       \/ AssignAttribute
       \/ SetScalar
       \/ SetJoined
       \/ SetCollection
       \/ GetCollection
       \/ Save
       \/ DbChanged
    /\ UNCHANGED migration_vars

Spec == Init /\ [][Next]_vars

InitMigration ==
    /\ migrations_dir \in Listings
    /\ Cardinality(BadScripts(migrations_dir)) <= MaxBadScripts
    /\ expected_sqlite_user_version \in 1..MaxVersion
    /\ file \in {NewFile} \cup ExistingFiles
    /\ connection = "none"
    /\ last = [op |-> "none", raised |-> FALSE, pre |-> file,
               mig |-> NoMigration]
    /\ db = EmptyTables
    /\ obj = NoObject
    /\ elast = NoCall
    /\ steps = 0

NextMigration == Open \/ ApplyMigrations \/ Close

SpecMigration == InitMigration /\ [][NextMigration]_vars

(***************************************************************************)
(* Database.save_person: the dict interface the GUI uses.  The statements  *)
(* it writes by hand are given the shape of the dynamic ones.              *)
(***************************************************************************)
MaxCalls == 2        \* calls of save_person in one behaviour

\* The arguments of the three _get_collection / _update_collection calls.
save_person_collections ==
    <<[name |-> "aliases", table |-> "people_aliases",
       update_column |-> [str |-> "alias"], get_columns |-> <<"alias">>,
       order_by_column |-> None, order_ascending |-> TRUE],
      [name |-> "email_addresses", table |-> "people_email_addresses",
       update_column |-> [str |-> "email_address"],
       get_columns |-> <<"email_address">>,
       order_by_column |-> "primary_email", order_ascending |-> FALSE],
      [name |-> "other_contact_info", table |-> "people_other_contact_info",
       update_column |->
          [tuple |-> <<"other_contact_info_type_id", "contact_info">>],
       get_columns |-> <<"other_contact_info_type_id", "contact_info">>,
       order_by_column |-> None, order_ascending |-> TRUE]>>

\* old_aliases, old_email_addresses, old_other_contact_info
OldItems(tables, i, is_new, person_id) ==
    LET c == save_person_collections[i]
    IN IF is_new THEN {<<>>}
       ELSE _get_collection(tables, c.table, "person_id", c.get_columns,
                            person_id, c.order_by_column, c.order_ascending)

\* "if new_email_addresses:" with its two hand-written updates
save_person_primary_keeps_old(person_id, old_email_addresses, new_email_addresses) ==
    IF new_email_addresses # <<>>
    THEN <<_dynamic_update("people_email_addresses",
                           [primary_email |-> True],
                           [person_id |-> person_id,
                            email_address |-> new_email_addresses[1]])>>
    ELSE <<>>

save_person_primary(person_id, old_email_addresses, new_email_addresses) ==
    IF new_email_addresses # <<>>
    THEN (IF old_email_addresses # <<>>
          THEN <<_dynamic_update("people_email_addresses",
                                 [primary_email |-> None],
                                 [person_id |-> person_id])>>
          ELSE <<>>)
         \o <<_dynamic_update("people_email_addresses",
                              [primary_email |-> True],
                              [person_id |-> person_id,
                               email_address |-> new_email_addresses[1]])>>
    ELSE <<>>

\* The statement sequences the three reconciliations and the marker
\* updates may make, in the order save_person issues them.
save_person_plans(tables, data, is_new, person_id) ==
    LET plans(i, old) ==
            _update_collection(save_person_collections[i].table, "person_id",
                               save_person_collections[i].update_column,
                               person_id, old,
                               data[save_person_collections[i].name])
    IN UNION {UNION {UNION {
          {p1 \o p2
              \o save_person_primary(person_id, o2, data.email_addresses)
              \o p3 :
                 p1 \in plans(1, o1), p2 \in plans(2, o2),
                 p3 \in plans(3, o3)} :
          o3 \in OldItems(tables, 3, is_new, person_id)} :
          o2 \in OldItems(tables, 2, is_new, person_id)} :
          o1 \in OldItems(tables, 1, is_new, person_id)}

\* The outcomes of one call of save_person.
save_person(tables, data, person_id, fail_at) ==
    LET is_new == person_id = None
        scalars == [c \in Range(Person.columns) |-> data[c]]
        stmt == IF is_new THEN _dynamic_insert(Person.table, scalars)
                ELSE _dynamic_update(Person.table, scalars,
                                     [id |-> person_id])
        id == IF is_new THEN NextId(tables[Person.table]) ELSE person_id
        t1 == Execute(EnterConnection(tables), stmt, fail_at)
        finish(plan) ==
            LET done == ExecuteAll(t1, plan, fail_at)
            IN [tables |-> ExitConnection(tables, done),
                log |-> done.log,
                raised |-> done.raised,
                person_id |-> IF done.raised THEN None ELSE id]
    IN {finish(plan) : plan \in save_person_plans(t1.tables, data, is_new, id)}

\* The dicts the person form hands to save_person.
PersonData ==
    [first_name_or_nickname : ScalarValues, pronouns : {None},
     notes : {None}, aliases : {<<"x">>},
     email_addresses : Lists(ItemStrings),
     other_contact_info : {<<<<"t1", "c1">>>>}]

\* db.save_person(data, person_id)
SavePerson ==
    /\ steps < MaxCalls
    /\ steps' = steps + 1
    /\ \E data \in PersonData, person_id \in PersonIds \cup {None},
          fail_at \in {0, MaxFailAt} :
         \E out \in save_person(db, data, person_id, fail_at) :
            /\ db' = out.tables
            /\ elast' = [op |-> "save_person", raised |-> out.raised,
                         pre_db |-> db, data |-> data,
                         argument |-> person_id,
                         person_id |-> out.person_id, log |-> out.log]
    /\ UNCHANGED <<obj, migration_vars>>

InitLegacy ==
    /\ migrations_dir = <<[version |-> 1, fail_at |-> 0]>>
    /\ expected_sqlite_user_version = 1
    /\ file = MigratedFile
    /\ connection = "open"
    /\ last = [op |-> "none", raised |-> FALSE, pre |-> file,
               mig |-> NoMigration]
    /\ db \in InitialStores
    /\ obj = NoObject
    /\ elast = NoCall
    /\ steps = 0

NextLegacy == SavePerson

SpecLegacy == InitLegacy /\ [][NextLegacy]_vars

(***************************************************************************)
(* An entity object and the dict interface on one store: other code saves  *)
(* a stored person through save_person while a Person object is in use.    *)
(***************************************************************************)
\* db.save_person(data, person_id) by code that does not hold the object
ExternalSavePerson ==
    /\ Step
    /\ \E data \in PersonData, person_id \in PersonIds :
         \E out \in save_person(db, data, person_id, 0) :
            db' = out.tables
    /\ elast' = Call("save_person", FALSE)
    /\ UNCHANGED obj

NextShared ==
    /\ \/ LoadEntity
       \/ GetCollection
       \/ DbChanged
       \/ ExternalSavePerson
    /\ UNCHANGED migration_vars

SpecShared == Init /\ [][NextShared]_vars

(***************************************************************************)
(* Database._update_collection on its own: the arguments are drawn from a  *)
(* bounded set, the store holds one row per distinct old item for the      *)
(* parent and one row of another parent, and the call is applied once.     *)
(***************************************************************************)
MaxOld == 3          \* items in old_items and in new_items

\* The ways the two callers pass update_column: save_person a str or a
\* tuple of two names, DbObject.save always collection.columns, a tuple.
UpdateCollectionCalls ==
    <<[table |-> "people_aliases", update_column |-> [str |-> "alias"],
       items |-> ItemStrings \cup MoreStrings],
      [table |-> "people_email_addresses",
       update_column |-> [tuple |-> <<"email_address">>],
       items |-> ItemStrings \cup MoreStrings],
      [table |-> "people_other_contact_info",
       update_column |->
          [tuple |-> <<"other_contact_info_type_id", "contact_info">>],
       items |-> TupleItems \cup MoreTuples]>>

ListsUpTo(items, n) == UNION {[1..k -> items] : k \in 0..n}

\* The row that holds an item of a parent.
ItemRow(call, parent, item) ==
    LET update_columns == UpdateColumns(call.update_column)
        values == IF Len(update_columns) = 1 THEN <<item>> ELSE item
    IN [c \in TableColumns[call.table] |->
          IF c = "person_id" THEN parent
          ELSE IF c \in Range(update_columns)
          THEN DictZip(update_columns, values)[c]
          ELSE None]

ItemRows(call, parent, items) ==
    SetToBag({ItemRow(call, parent, item) : item \in items})

InitReconcile ==
    /\ migrations_dir = <<[version |-> 1, fail_at |-> 0]>>
    /\ expected_sqlite_user_version = 1
    /\ file = MigratedFile
    /\ connection = "open"
    /\ last = [op |-> "none", raised |-> FALSE, pre |-> file,
               mig |-> NoMigration]
    /\ obj = NoObject
    /\ steps = 0
    /\ \E i \in DOMAIN UpdateCollectionCalls :
         LET call == UpdateCollectionCalls[i]
         IN \E old_items \in ListsUpTo(call.items, MaxOld),
               new_items \in ListsUpTo(call.items, MaxOld) :
              /\ elast = [op |-> "arguments", call |-> i,
                          old_items |-> old_items, new_items |-> new_items]
              /\ db = [EmptyTables EXCEPT ![call.table] =
                          ItemRows(call, "p1", Range(old_items))
                          (+) ItemRows(call, "p2", Range(old_items))]

\* self._update_collection(table, "person_id", update_column, "p1", ...)
UpdateCollection ==
    /\ elast.op = "arguments"
    /\ LET call == UpdateCollectionCalls[elast.call]
       IN \E plan \in _update_collection(call.table, "person_id",
                         call.update_column, "p1",
                         elast.old_items, elast.new_items) :
            /\ db' = ExecuteAll(EnterConnection(db), plan, 0).tables
            /\ elast' = [op |-> "_update_collection", call |-> elast.call,
                         old_items |-> elast.old_items,
                         new_items |-> elast.new_items,
                         plan |-> plan, pre_db |-> db]
    /\ steps' = steps + 1
    /\ UNCHANGED <<obj, migration_vars>>

NextReconcile == UpdateCollection

SpecReconcile == InitReconcile /\ [][NextReconcile]_vars

(***************************************************************************)
(* Properties of the migration engine and of the store-kind check.         *)
(***************************************************************************)
Versions(files) == {files[i].version : i \in 1..Len(files)}

\* C1: whenever apply_migrations raises, the file after the call equals the
\* file before the call: user_version and the effects of every script run
\* during the call are rolled back, also when earlier scripts of the same
\* call had run to their end.
MigrationAllOrNothing ==
    (last.mig.called /\ last.mig.raised) => file = last.mig.pre

\* A script ran to its end, a later script failed at its second statement,
\* and the call raised.
MigrationAllOrNothingWitness ==
    /\ last.mig.called
    /\ last.mig.raised
    /\ Len(last.mig.executed) >= 1
    /\ \E s \in last.mig.work.effects \ last.mig.pre.effects :
           s[1] > last.mig.work.user_version

\* C2: with script files for exactly the versions 1..N, none of them
\* failing, and expected version N, apply_migrations on a store at version 0
\* succeeds with user_version N and every script's statements applied,
\* whatever the order in which the directory lists the files.
CompleteSetMigratesInAnyOrder ==
    LET n == Len(migrations_dir)
    IN (/\ last.mig.called
        /\ last.mig.pre.user_version = 0
        /\ n >= 1
        /\ Versions(migrations_dir) = 1..n
        /\ BadScripts(migrations_dir) = {}
        /\ expected_sqlite_user_version = n)
       => /\ ~last.mig.raised
          /\ file.user_version = n
          /\ EffectsUpTo(n) \subseteq file.effects

\* The script set seen from version start has a gap or goes beyond the
\* expected version.
GapOrOvershoot(files, start, expected_version) ==
    \E v \in Versions(files) :
        /\ v > start
        /\ \/ v > expected_version
           \/ v - 1 # start /\ v - 1 \notin Versions(files)

\* Some file was reached with a version above the current version that is
\* not current + 1 or is above the expected version.
ReachedBadScript(examined, expected_version) ==
    \E i \in 1..Len(examined) :
        /\ examined[i][1] > examined[i][2]
        /\ \/ examined[i][1] # examined[i][2] + 1
           \/ examined[i][1] > expected_version

\* C3: a bad script sequence is rejected: if a script above the current
\* version is not exactly current + 1 or exceeds the expected version, the
\* call raises and user_version is the one before the call.
BadSequenceRejected ==
    (/\ last.mig.called
     /\ \/ GapOrOvershoot(migrations_dir, last.mig.pre.user_version,
                          expected_sqlite_user_version)
        \/ ReachedBadScript(last.mig.examined,
                            expected_sqlite_user_version))
    => /\ last.mig.raised
       /\ file.user_version = last.mig.pre.user_version

\* The script set {1, 3} with expected version 3 on a store at version 0,
\* listed as 1 then 3: script 1 ran, script 3 was rejected.
BadSequenceRejectedWitness ==
    /\ last.mig.called
    /\ Versions(migrations_dir) = {1, 3}
    /\ expected_sqlite_user_version = 3
    /\ last.mig.pre.user_version = 0
    /\ Len(last.mig.executed) = 1
    /\ last.mig.raised
    /\ file.user_version = 0

\* C4: whenever apply_migrations returns without raising, user_version
\* equals expected_sqlite_user_version, for every starting version.
SuccessMeansExpectedVersion ==
    (last.mig.called /\ ~last.mig.raised)
    => file.user_version = expected_sqlite_user_version

\* C5: within one call scripts run in strictly increasing version order and
\* each raises user_version by exactly 1; over any sequence of calls the
\* committed user_version never decreases.
ExecutedInOrder(executed) ==
    \A i \in 1..Len(executed) :
        /\ executed[i][3] = executed[i][2] + 1
        /\ executed[i][3] = executed[i][1]
        /\ i > 1 => /\ executed[i][1] > executed[i - 1][1]
                    /\ executed[i][2] = executed[i - 1][3]

VersionMonotonic ==
    /\ [](last.mig.called => ExecutedInOrder(last.mig.executed))
    /\ [][file'.user_version >= file.user_version]_vars

\* A call that ran two scripts and committed.
VersionMonotonicWitness ==
    /\ last.mig.called
    /\ ~last.mig.raised
    /\ Len(last.mig.executed) >= 2
    /\ file.user_version = last.mig.pre.user_version + 2

\* C6 (as stated): a call on a store whose user_version equals the expected
\* version runs no script statement, leaves the store unchanged and
\* succeeds.
UpToDateStoreSucceeds ==
    (last.mig.called
     /\ last.mig.pre.user_version = expected_sqlite_user_version)
    => /\ last.mig.executed = <<>>
       /\ last.mig.work = last.mig.pre
       /\ file = last.mig.pre
       /\ ~last.mig.raised

\* C6 (amended): no call runs a script whose version is at or below the
\* user_version the store had; a call on a store whose user_version equals
\* the expected version runs no statement and leaves the store unchanged,
\* and it succeeds exactly when no script file is above the expected
\* version; a call that follows a successful call succeeds and changes
\* nothing.
MigrationAtMostOnce ==
    /\ [](last.mig.called =>
            /\ \A i \in 1..Len(last.mig.executed) :
                   last.mig.executed[i][1] > last.mig.pre.user_version
            /\ last.mig.pre.user_version = expected_sqlite_user_version =>
                   /\ last.mig.executed = <<>>
                   /\ last.mig.work = last.mig.pre
                   /\ file = last.mig.pre
                   /\ last.mig.raised <=>
                          \E v \in Versions(migrations_dir) :
                              v > expected_sqlite_user_version)
    /\ [][(last.mig.called /\ ~last.mig.raised /\ last'.mig.called)
          => (file' = file /\ ~last'.mig.raised)]_vars

\* A second call on a store that a first call brought from below the
\* expected version up to it.
MigrationAtMostOnceWitness ==
    /\ last.op = "apply_migrations"
    /\ last.mig.pre.user_version = expected_sqlite_user_version
    /\ last.mig.pre.effects # {}
    /\ Len(last.mig.examined) >= 1
    /\ ~last.mig.raised

SavedNew ==
    /\ elast.op = "save"
    /\ ~elast.raised
    /\ elast.pre_obj.id = None

AssignedColumns == DOMAIN elast.pre_obj.new_values \cap Range(Person.columns)

AssignedCollections == DOMAIN elast.pre_obj.new_values \cap CollectionNames

\* Person(db, id) with the id the saved object holds, and each collection
\* read through Collection.__get__, gives the values assigned before save.
ReadsBackAssigned ==
    LET again == IF obj.id # None THEN _load(Constructed(obj.id), db)
                 ELSE {Constructed(obj.id)}
    IN /\ again # {}
       /\ \A o \in again :
            /\ \A c \in AssignedColumns :
                 DictGet(o.db_values, c) = elast.pre_obj.new_values[c]
            /\ \A n \in AssignedCollections :
                 \A g \in Collection__get__(o, db, CollectionNamed(n)) :
                    g.new_values[n] = elast.pre_obj.new_values[n]

\* C8: after save() succeeds on an entity constructed without id that was
\* given scalar and collection values, the entity's id is not None, and
\* constructing a Person with that id reads back every assigned scalar and
\* every assigned collection item unchanged.
SavedNewEntityReadsBack ==
    (SavedNew /\ AssignedColumns # {} /\ AssignedCollections # {}) =>
        (obj.id # None /\ ReadsBackAssigned)

\* C9: over any sequence of save() calls on one entity object at most one
\* row is inserted into the entity's table: the first successful save of an
\* entity without id inserts, every later save updates by id.
EntityInsertedAtMostOnce ==
    /\ obj.inserted <= 1
    /\ (elast.op = "save" /\ elast.pre_obj.inserted >= 1) =>
          elast.log[1].kind = "update"

\* C10: when a statement of save() fails, whichever it is, the store after
\* the call equals the store before the call: neither the scalar row nor a
\* collection reconciled earlier in the same save is committed.
SaveAllOrNothing ==
    (elast.op = "save" /\ elast.raised) => db = elast.pre_db

\* A save whose scalar statement and a whole collection went through and
\* whose statement for a later collection failed.
SaveAllOrNothingWitness ==
    /\ elast.op = "save"
    /\ elast.raised
    /\ elast.work # elast.pre_db
    /\ \E i, j \in DOMAIN elast.log :
          /\ i < j
          /\ j < Len(elast.log)
          /\ elast.log[i].table = Person.table
          /\ elast.log[j].table # Person.table
          /\ elast.log[j].table # elast.log[Len(elast.log)].table
          /\ elast.work[elast.log[j].table] # elast.pre_db[elast.log[j].table]

(***************************************************************************)
(* Properties of change tracking.                                          *)
(***************************************************************************)
\* The columns whose value in _new_values differs from the one in
\* _db_values when the last save() was called.
DirtyColumns(o) ==
    {c \in DOMAIN o.new_values \cap Range(Person.columns) :
        o.new_values[c] # DictGet(o.db_values, c)}

SavedWithId == elast.op = "save" /\ elast.pre_obj.id # None

CleanSaveCompletes ==
    /\ (elast.op = "save" /\ ~elast.raised) => DirtyColumns(obj) = {}
    /\ (SavedWithId /\ DirtyColumns(elast.pre_obj) = {}) =>
          ~SyntaxError(elast.log[1])

(***************************************************************************)
(* Properties of the primary marker.                                       *)
(***************************************************************************)
Emails == Person.collections[2]

\* The rows of the collection that belong to the entity with this id.
RowsOf(tables, collection, id) ==
    MatchingRows(tables[collection.table],
                 [c \in {collection.foreign_key} |-> id])

Flagged(tables, collection, id) ==
    MatchingRows(RowsOf(tables, collection, id),
                 [c \in {collection.primary_column} |-> True])

SavedEmails ==
    /\ elast.op = "save"
    /\ ~elast.raised
    /\ Emails.name \in DOMAIN elast.pre_obj.new_values

\* C13: after a successful save() that reconciled the collection with the
\* primary marker, a non-empty saved list leaves exactly one row of the
\* entity flagged, the row of the list's first item, and an empty saved list
\* leaves no row flagged.
PrimaryIsFirstSaved ==
    SavedEmails =>
        LET items == elast.pre_obj.new_values[Emails.name]
            flagged == Flagged(db, Emails, obj.id)
        IN IF items # <<>>
           THEN /\ BagCardinality(flagged) = 1
                /\ \A r \in BagToSet(flagged) :
                      r[Emails.columns[1]] = items[1]
           ELSE flagged = EmptyBag

\* The last statement of the save was one sqlite cannot parse.
RejectedAsMalformed ==
    elast.raised /\ SyntaxError(elast.log[Len(elast.log)])

\* save() was called with the two stored items of the collection assigned
\* in the opposite order; the store held the first flagged, the second not.
SavedSwapped ==
    /\ SavedWithId
    /\ Emails.name \in DOMAIN elast.pre_obj.new_values
    /\ LET items == elast.pre_obj.new_values[Emails.name]
       IN /\ Len(items) = 2
          /\ items[1] # items[2]
          /\ _get_collection(elast.pre_db, Emails.table, Emails.foreign_key,
                             Emails.columns, elast.pre_obj.id,
                             Emails.primary_column, FALSE)
                = {<<items[2], items[1]>>}

\* C14: when the collection with the primary marker is stored as [E1, E2],
\* saving it as [E2, E1] goes through, issues only update statements against
\* the collection's table, and leaves E2's row as the only flagged row.
SwapMovesFlagByUpdates ==
    SavedSwapped =>
        /\ ~RejectedAsMalformed
        /\ ~elast.raised =>
             /\ \A i \in DOMAIN elast.log :
                   elast.log[i].table = Emails.table =>
                      elast.log[i].kind = "update"
             /\ BagToSet(Flagged(db, Emails, obj.id)) =
                   {r \in BagToSet(RowsOf(db, Emails, obj.id)) :
                       r[Emails.columns[1]] =
                          elast.pre_obj.new_values[Emails.name][1]}
             /\ BagCardinality(Flagged(db, Emails, obj.id)) = 1

\* C15: after a successful save_person the rows of people_email_addresses
\* of every person hold at most one row with primary_email = 1; for the
\* person just saved with a non-empty email_addresses list there is exactly
\* one, the row of the list's first address.
LegacyPrimaryIsFirst ==
    /\ \A r \in BagToSet(db[Emails.table]) :
          BagCardinality(Flagged(db, Emails, r[Emails.foreign_key])) <= 1
    /\ (elast.op = "save_person" /\ ~elast.raised
           /\ elast.data.email_addresses # <<>>) =>
          LET flagged == Flagged(db, Emails, elast.person_id)
          IN /\ BagCardinality(flagged) = 1
             /\ \A r \in BagToSet(flagged) :
                   r.email_address = elast.data.email_addresses[1]

\* save_person updated a person whose flagged row was another address than
\* the first of the new list, and the old flagged row is still stored.
LegacyPrimaryIsFirstWitness ==
    /\ elast.op = "save_person"
    /\ ~elast.raised
    /\ elast.argument # None
    /\ Len(elast.data.email_addresses) = 2
    /\ \E r \in BagToSet(Flagged(elast.pre_db, Emails, elast.argument)) :
          /\ r.email_address # elast.data.email_addresses[1]
          /\ r.email_address = elast.data.email_addresses[2]
    /\ BagCardinality(RowsOf(db, Emails, elast.argument)) = 2

(***************************************************************************)
(* Properties of Database._update_collection.                              *)
(***************************************************************************)
Reconciled == elast.op = "_update_collection"

RemoveTuples == Range(elast.old_items) \ Range(elast.new_items)

AddTuples == Range(elast.new_items) \ Range(elast.old_items)

Min(a, b) == IF a < b THEN a ELSE b

CountKind(plan, kind) == Cardinality({i \in DOMAIN plan : plan[i].kind = kind})

\* C16: with R the old items that are not new and A the new items that are
\* not old, _update_collection issues min(|R|, |A|) updates, the other
\* |R| - min deletes and the other |A| - min inserts, and nothing else: never
\* a delete and an insert in one call, nothing when R and A are empty.
ReconcilePlanMinimal ==
    Reconciled =>
        LET r == Cardinality(RemoveTuples)
            a == Cardinality(AddTuples)
            m == Min(r, a)
        IN /\ CountKind(elast.plan, "update") = m
           /\ CountKind(elast.plan, "delete") = r - m
           /\ CountKind(elast.plan, "insert") = a - m
           /\ Len(elast.plan) = r + a - m
           /\ CountKind(elast.plan, "delete") = 0
                 \/ CountKind(elast.plan, "insert") = 0

\* old = {A, B, C} and new = {B, C, D} gave one update and nothing else.
ReconcilePlanMinimalWitness ==
    /\ Reconciled
    /\ Cardinality(Range(elast.old_items)) = 3
    /\ Cardinality(Range(elast.new_items)) = 3
    /\ Cardinality(RemoveTuples) = 1
    /\ Cardinality(AddTuples) = 1
    /\ Len(elast.plan) = 1
    /\ elast.plan[1].kind = "update"
    /\ db # elast.pre_db

\* C17: when the rows of the parent were one per distinct item of
\* old_items, after _update_collection they are one per distinct item of
\* new_items, for str items and for tuple items, in the way save_person
\* calls it and in the way DbObject.save calls it.
ReconcileStoresNewItems ==
    Reconciled =>
        LET call == UpdateCollectionCalls[elast.call]
        IN MatchingRows(db[call.table], [person_id |-> "p1"])
              = ItemRows(call, "p1", Range(elast.new_items))

(***************************************************************************)
(* Properties of the collections of an entity.                             *)
(***************************************************************************)
StatementsOn(log, table) == {i \in DOMAIN log : log[i].table = table}

StoredItems(collection) ==
    _get_collection(db, collection.table, collection.foreign_key,
                    collection.columns, obj.id, collection.primary_column,
                    FALSE)

\* C19: the read of a collection that follows db_changed() on an entity
\* with an id, the collection never having been assigned, returns the rows
\* that are in the store at that time.
ReadAfterDbChangedIsFresh ==
    [][(elast.op = "db_changed" /\ ~elast.raised /\ obj.id # None
           /\ elast'.op = "get_collection") =>
          elast'.value \in StoredItems(CollectionNamed(elast'.name))]_vars

SavedPersonData ==
    [first_name_or_nickname : ScalarValues, pronouns : {None},
     notes : {None, "a"},
     aliases : {<<>>, <<"x", "yz">>, <<"x", "x">>},
     email_addresses : {<<>>, <<"x">>, <<"yz", "x">>},
     other_contact_info : {<<>>, <<<<"t1", "c1">>>>}]

\* Database.save_person called without a failure, inserting a person or
\* updating an existing one.
SavePersonRecord ==
    /\ steps < MaxCalls
    /\ steps' = steps + 1
    /\ ~obj.constructed
    /\ \E data \in SavedPersonData, person_id \in PersonIds \cup {None} :
         \E out \in save_person(db, data, person_id, 0) :
            /\ db' = out.tables
            /\ elast' = [op |-> "save_person", raised |-> out.raised,
                         data |-> data, person_id |-> out.person_id]
    /\ UNCHANGED <<obj, migration_vars>>

NextReadBack ==
    \/ SavePersonRecord
    \/ (LoadEntity \/ GetCollection) /\ UNCHANGED migration_vars

SpecReadBack == Init /\ [][NextReadBack]_vars

FlaggedAddresses(tables, id) ==
    {r[Emails.columns[1]] : r \in BagToSet(Flagged(tables, Emails, id))}

\* A step that ran DbObject._load to its end.
Loads ==
    \/ elast'.op = "load" /\ ~elast'.raised
    \/ elast'.op = "db_changed" /\ ~elast'.raised /\ obj.id # None

MaxDigits == 2       \* digits in the coefficient of a Decimal
MaxExponent == 8     \* absolute value of the exponent of a Decimal
MaxFraction == 7     \* digits after the point in a stored time of day

Digits == <<"0", "1", "2", "3", "4", "5", "6", "7", "8", "9">>

DigitValue(c) == CHOOSE n \in 0..9 : Digits[n + 1] = c

\* str.isdigit of a text of any length
AllDigits(text) == \A i \in DOMAIN text : text[i] \in Range(Digits)

\* "0" * n
Zeros(n) == [i \in 1..n |-> "0"]

\* str(n) of an int that is not negative
RECURSIVE IntToText(_)
IntToText(n) ==
    IF n < 10
    THEN <<Digits[n + 1]>>
    ELSE IntToText(n \div 10) \o <<Digits[(n % 10) + 1]>>

\* int(text) of a text of digits
RECURSIVE TextToInt(_)
TextToInt(text) ==
    IF text = <<>>
    THEN 0
    ELSE TextToInt(SubSeq(text, 1, Len(text) - 1)) * 10
            + DigitValue(text[Len(text)])

\* "%0<width>d" % n
ZeroFill(n, width) ==
    LET text == IntToText(n)
    IN IF Len(text) < width THEN Zeros(width - Len(text)) \o text ELSE text

\* text.split(sep)
RECURSIVE Split(_, _)
Split(text, sep) ==
    IF \E i \in DOMAIN text : text[i] = sep
    THEN LET i == CHOOSE k \in DOMAIN text :
                     /\ text[k] = sep
                     /\ \A j \in 1..(k - 1) : text[j] # sep
         IN <<SubSeq(text, 1, i - 1)>>
               \o Split(SubSeq(text, i + 1, Len(text)), sep)
    ELSE <<text>>

\* The outcome of a call that raised.
Raised == [raised |-> TRUE]

Returned(value) == [raised |-> FALSE, value |-> value]

\* sqlite3.register_adapter(bool, int)
bool_adapter(v) == IF v THEN 1 ELSE 0

\* lambda v: bool(v), in place of the comparison with b"0"
boolean_integer_converter_truthy(v) == Returned(v # <<>>)

\* sqlite3.register_converter("boolean_integer", lambda v: v != b"0")
boolean_integer_converter(v) == Returned(v # <<"0">>)

\* str(decimal.Decimal) of a finite value [sign, int, exp], the adapter
\* registered for decimal.Decimal
Decimal__str__(d) ==
    LET leftdigits == d.exp + Len(d.int)
        dotplace == IF d.exp <= 0 /\ leftdigits > -6 THEN leftdigits ELSE 1
        intpart == IF dotplace <= 0
                   THEN <<"0">>
                   ELSE IF dotplace >= Len(d.int)
                        THEN d.int \o Zeros(dotplace - Len(d.int))
                        ELSE SubSeq(d.int, 1, dotplace)
        fracpart == IF dotplace <= 0
                    THEN <<".">> \o Zeros(-dotplace) \o d.int
                    ELSE IF dotplace >= Len(d.int)
                         THEN <<>>
                         ELSE <<".">> \o SubSeq(d.int, dotplace + 1,
                                                Len(d.int))
        e == leftdigits - dotplace
        exp == IF e = 0
               THEN <<>>
               ELSE IF e < 0
                    THEN <<"E", "-">> \o IntToText(-e)
                    ELSE <<"E", "+">> \o IntToText(e)
    IN (IF d.sign = 1 THEN <<"-">> ELSE <<>>) \o intpart \o fracpart \o exp

\* lambda v: decimal.Decimal(v.decode()), the converter registered for
\* "decimal_text"
decimal_text_converter(v) ==
    LET signed == v # <<>> /\ v[1] \in {"-", "+"}
        body == IF signed THEN Tail(v) ELSE v
        mantissa_exp == Split(body, "E")
        parts == Split(mantissa_exp[1], ".")
        intpart == parts[1]
        fracpart == IF Len(parts) = 2 THEN parts[2] ELSE <<>>
        exptext == mantissa_exp[2]
        expdigits == IF exptext # <<>> /\ exptext[1] \in {"-", "+"}
                     THEN Tail(exptext)
                     ELSE exptext
        exp == IF Len(mantissa_exp) = 2
               THEN IF exptext[1] = "-"
                    THEN -TextToInt(expdigits)
                    ELSE TextToInt(expdigits)
               ELSE 0
        wellformed ==
            /\ Len(mantissa_exp) <= 2
            /\ Len(parts) <= 2
            /\ AllDigits(intpart) /\ AllDigits(fracpart)
            /\ intpart \o fracpart # <<>>
            /\ Len(mantissa_exp) = 2 =>
                  expdigits # <<>> /\ AllDigits(expdigits)
    IN IF wellformed
       THEN Returned([sign |-> IF signed /\ v[1] = "-" THEN 1 ELSE 0,
                      int |-> IntToText(TextToInt(intpart \o fracpart)),
                      exp |-> exp - Len(fracpart)])
       ELSE Raised

\* str(datetime.time) of a value without tzinfo, the adapter registered
\* for datetime.time
time__str__(t) ==
    ZeroFill(t.hour, 2) \o <<":">> \o ZeroFill(t.minute, 2) \o <<":">>
       \o ZeroFill(t.second, 2)
       \o (IF t.microsecond # 0
           THEN <<".">> \o ZeroFill(t.microsecond, 6)
           ELSE <<>>)

\* '{:0<6.6}'.format(text)
format_0_left_6_6(text) ==
    LET cut == IF Len(text) > 6 THEN SubSeq(text, 1, 6) ELSE text
    IN cut \o Zeros(6 - Len(cut))

\* datetime.time(hours, minutes, seconds, microseconds)
datetime_time(hours, minutes, seconds, microseconds) ==
    IF /\ hours \in 0..23 /\ minutes \in 0..59 /\ seconds \in 0..59
       /\ microseconds \in 0..999999
    THEN Returned([hour |-> hours, minute |-> minutes, second |-> seconds,
                   microsecond |-> microseconds])
    ELSE Raised

\* convert_timeofday with int(text) in place of the formatted text
convert_timeofday_unpadded(val) ==
    LET timepart_full == Split(val, ".")
        hms == Split(timepart_full[1], ":")
    IN IF /\ Len(hms) = 3
          /\ \A i \in 1..3 : hms[i] # <<>> /\ AllDigits(hms[i])
          /\ Len(timepart_full) = 2 =>
                timepart_full[2] # <<>> /\ AllDigits(timepart_full[2])
       THEN datetime_time(TextToInt(hms[1]), TextToInt(hms[2]),
                          TextToInt(hms[3]),
                          IF Len(timepart_full) = 2
                          THEN TextToInt(timepart_full[2])
                          ELSE 0)
       ELSE Raised

\* convert_timeofday, the converter registered for "timeofday_text"
convert_timeofday(val) ==
    LET timepart_full == Split(val, ".")
        hms == Split(timepart_full[1], ":")
    IN IF /\ Len(hms) = 3
          /\ \A i \in 1..3 : hms[i] # <<>> /\ AllDigits(hms[i])
          /\ Len(timepart_full) = 2 =>
                AllDigits(format_0_left_6_6(timepart_full[2]))
       THEN datetime_time(TextToInt(hms[1]), TextToInt(hms[2]),
                          TextToInt(hms[3]),
                          IF Len(timepart_full) = 2
                          THEN TextToInt(format_0_left_6_6(timepart_full[2]))
                          ELSE 0)
       ELSE Raised

\* The value sqlite stores for a parameter of each declared column type.
Adapted(kind, value) ==
    CASE kind = "boolean_integer" -> bool_adapter(value)
      [] kind = "decimal_text" -> Decimal__str__(value)
      [] kind = "timeofday_text" -> time__str__(value)

\* The value a select returns for a stored value: the converter of the
\* declared type, called with the bytes of the column.
Converted(kind, stored) ==
    CASE kind = "boolean_integer" ->
            boolean_integer_converter(IntToText(stored))
      [] kind = "decimal_text" -> decimal_text_converter(stored)
      [] kind = "timeofday_text" -> convert_timeofday(stored)

\* Coefficients as decimal.Decimal keeps them: no leading zero.
Coefficients ==
    {c \in UNION {[1..n -> {"0", "1", "5", "9"}] : n \in 1..MaxDigits} :
        Len(c) > 1 => c[1] # "0"}

Decimals ==
    [sign : {0, 1}, int : Coefficients, exp : (-MaxExponent)..MaxExponent]

Times ==
    [hour : {0, 9, 12, 23}, minute : {0, 7, 59}, second : {0, 30, 59},
     microsecond : {0, 5, 100, 123456, 500000, 999999}]

\* "12:00:00", alone or followed by a point and a fractional part
StoredTimes ==
    LET whole == <<"1", "2", ":", "0", "0", ":", "0", "0">>
        fractions ==
            UNION {[1..n -> {"0", "5"}] : n \in 0..MaxFraction}
               \cup {SubSeq(Digits, 2, 7), SubSeq(Digits, 2, 8)}
    IN {whole} \cup {whole \o <<".">> \o f : f \in fractions}

InitCodec ==
    /\ migrations_dir = <<[version |-> 1, fail_at |-> 0]>>
    /\ expected_sqlite_user_version = 1
    /\ file = MigratedFile
    /\ connection = "open"
    /\ last = [op |-> "none", raised |-> FALSE, pre |-> file,
               mig |-> NoMigration]
    /\ db = EmptyTables
    /\ obj = NoObject
    /\ steps = 0
    /\ \/ \E v \in BOOLEAN :
            elast = [op |-> "value", kind |-> "boolean_integer", value |-> v]
       \/ \E v \in Decimals :
            elast = [op |-> "value", kind |-> "decimal_text", value |-> v]
       \/ \E v \in Times :
            elast = [op |-> "value", kind |-> "timeofday_text", value |-> v]
       \/ \E text \in StoredTimes :
            elast = [op |-> "stored", kind |-> "timeofday_text",
                     value |-> None, adapted |-> FALSE, stored |-> text]

\* A value bound as a parameter of an insert or update.
Adapt ==
    /\ elast.op = "value"
    /\ elast' = [op |-> "stored", kind |-> elast.kind, value |-> elast.value,
                 adapted |-> TRUE,
                 stored |-> Adapted(elast.kind, elast.value)]
    /\ UNCHANGED <<db, obj, steps, migration_vars>>

\* A stored value read by a select of its column.
Convert ==
    /\ elast.op = "stored"
    /\ elast' = [op |-> "converted", kind |-> elast.kind,
                 value |-> elast.value, adapted |-> elast.adapted,
                 stored |-> elast.stored,
                 result |-> Converted(elast.kind, elast.stored)]
    /\ UNCHANGED <<db, obj, steps, migration_vars>>

NextCodec == Adapt \/ Convert

SpecCodec == InitCodec /\ [][NextCodec]_vars

\* C24: a bool, a finite Decimal or a time of day without tzinfo that was
\* bound as a parameter is converted back, from the value stored for it, to
\* the value that was bound.
CodecRoundTrip ==
    (elast.op = "converted" /\ elast.adapted) =>
        /\ ~elast.result.raised
        /\ elast.result.value = elast.value

\* The round trip of a negative Decimal stored with a point and an
\* exponent.
CodecRoundTripWitness ==
    /\ elast.op = "converted"
    /\ elast.adapted
    /\ elast.kind = "decimal_text"
    /\ elast.value.sign = 1
    /\ "E" \in Range(elast.stored)
    /\ "." \in Range(elast.stored)
    /\ ~elast.result.raised

\* The text after the first point of a stored time, if it has one.
FractionOf(text) ==
    IF "." \in Range(text)
    THEN LET i == CHOOSE k \in DOMAIN text :
                     text[k] = "." /\ \A j \in 1..(k - 1) : text[j] # "."
         IN SubSeq(text, i + 1, Len(text))
    ELSE <<>>

\* C25: a stored time of day decodes to the microseconds written by the
\* first six digits of its fractional part followed by six zeros: 500000
\* for "12:00:00.5", 123456 for "12:00:00.123456" and for a longer part
\* that starts with it, 0 without a fractional part.
FractionPaddedToSixDigits ==
    (elast.op = "converted" /\ elast.kind = "timeofday_text"
        /\ ~elast.adapted) =>
        /\ ~elast.result.raised
        /\ elast.result.value.microsecond
              = TextToInt(SubSeq(FractionOf(elast.stored) \o Zeros(6), 1, 6))
        /\ FractionOf(elast.stored) = <<"5">> =>
              elast.result.value.microsecond = 500000
        /\ FractionOf(elast.stored) = SubSeq(Digits, 2, 7) =>
              elast.result.value.microsecond = 123456
        /\ FractionOf(elast.stored) = SubSeq(Digits, 2, 8) =>
              elast.result.value.microsecond = 123456
        /\ "." \notin Range(elast.stored) =>
              elast.result.value.microsecond = 0

\* "12:00:00.5" was decoded.
FractionPaddedToSixDigitsWitness ==
    /\ elast.op = "converted"
    /\ elast.kind = "timeofday_text"
    /\ ~elast.adapted
    /\ FractionOf(elast.stored) = <<"5">>
    /\ ~elast.result.raised

\* ---------------------------------------------------------------------
\* The statement texts built by the dynamic statement methods.  A text is
\* the sequence of the pieces that str.format and str.join put together; a
\* dictionary argument is the sequence of its (key, value) items in
\* insertion order.

MaxColumns == 2      \* keys in a dictionary argument

\* sep.join(parts)
RECURSIVE JoinText(_, _)
JoinText(parts, sep) ==
    IF parts = <<>>
    THEN <<>>
    ELSE IF Len(parts) = 1
         THEN parts[1]
         ELSE parts[1] \o <<sep>> \o JoinText(Tail(parts), sep)

Keys(items) == [i \in DOMAIN items |-> items[i][1]]

\* query and parameters of _dynamic_insert
_dynamic_insert_query(table, column_values) ==
    LET column_names == Keys(column_values)
        column_names_sql ==
            JoinText([i \in DOMAIN column_names |-> <<column_names[i]>>],
                     ",")
        insert_params ==
            [i \in DOMAIN column_names |-> <<":", column_names[i]>>]
        insert_params_sql == JoinText(insert_params, ",")
    IN [query |-> <<"insert into ", table, " (">> \o column_names_sql
                     \o <<") values (">> \o insert_params_sql \o <<")">>,
        parameters |-> {<<column_values[i][1], column_values[i][2]>> :
                           i \in DOMAIN column_values}]

\* query and parameters of _dynamic_delete
_dynamic_delete_query(table, where_conditions) ==
    LET column_names == Keys(where_conditions)
        comparisons ==
            [i \in DOMAIN column_names |->
                <<column_names[i], "=:", column_names[i]>>]
        where_conditions_sql == JoinText(comparisons, " and ")
    IN [query |-> <<"delete from ", table, " where ">>
                     \o where_conditions_sql,
        parameters |-> {<<where_conditions[i][1], where_conditions[i][2]>> :
                           i \in DOMAIN where_conditions}]

\* query and parameters of _dynamic_update
_dynamic_update_query(table, column_values, where_conditions) ==
    LET assignments ==
            [i \in DOMAIN column_values |->
                <<column_values[i][1], "=:", column_values[i][1], "_set">>]
        conditions ==
            [i \in DOMAIN where_conditions |->
                <<where_conditions[i][1], "=:", where_conditions[i][1],
                  "_where">>]
        assignments_sql == JoinText(assignments, ",")
        conditions_sql == JoinText(conditions, " and ")
    IN [query |-> <<"update ", table, " set ">> \o assignments_sql
                     \o <<" where ">> \o conditions_sql,
        parameters |->
            {<<column_values[i][1], "_set", column_values[i][2]>> :
                i \in DOMAIN column_values}
            \cup {<<where_conditions[i][1], "_where",
                    where_conditions[i][2]>> :
                     i \in DOMAIN where_conditions}]

\* _get_collection with the filter value formatted into the text
_get_collection_query_inlined(table, filter_column, get_column, filter_value, order_by_column, order_ascending) ==
    [query |-> <<"select ">>
                  \o (IF isinstance_str(get_column)
                      THEN <<get_column.str>>
                      ELSE JoinText([i \in DOMAIN get_column.tuple |->
                                        <<get_column.tuple[i]>>], ","))
                  \o <<" from ", table, " where ", filter_column, " = ",
                       filter_value>>,
     parameters |-> {<<1, filter_value>>}]

\* query and parameters of _get_collection
_get_collection_query(table, filter_column, get_column, filter_value, order_by_column, order_ascending) ==
    LET get_columns_sql ==
            IF isinstance_str(get_column)
            THEN <<get_column.str>>
            ELSE JoinText([i \in DOMAIN get_column.tuple |->
                              <<get_column.tuple[i]>>], ",")
        order_by_sql ==
            IF order_by_column # None
            THEN <<"order by ", order_by_column, " ",
                   IF order_ascending THEN "asc" ELSE "desc">>
            ELSE <<>>
    IN [query |-> <<"select ">> \o get_columns_sql \o <<" from ", table,
                    " where ", filter_column, " = ?">> \o order_by_sql,
        parameters |-> {<<1, filter_value>>}]

\* The table and column names that the callers pass.
TableNames == DOMAIN TableColumns

ColumnNames == {"person_id", "alias", "email_address", "primary_email"}

\* The values that the callers pass: items, None and a text with quotes.
DataValues == ItemStrings \cup {None, "x' or '1'='1"}

\* Dictionaries of up to MaxColumns keys, as sequences of items.
Dictionaries ==
    UNION {{d \in [1..n -> ColumnNames \X DataValues] :
               \A i, j \in 1..n : i # j => d[i][1] # d[j][1]} :
             n \in 0..MaxColumns}

OneKey == {d \in Dictionaries : Len(d) = 1}

GetColumns ==
    {[str |-> c] : c \in ColumnNames}
       \cup {[tuple |-> <<"other_contact_info_type_id", "contact_info">>]}

\* The calls of the four methods.
SqlCalls ==
    [kind : {"insert"}, table : TableNames, column_values : Dictionaries]
    \cup [kind : {"delete"}, table : TableNames,
          where_conditions : Dictionaries]
    \cup [kind : {"update"}, table : TableNames,
          column_values : Dictionaries, where_conditions : OneKey]
    \cup [kind : {"select"}, table : TableNames,
          filter_column : {"person_id"}, get_column : GetColumns,
          filter_value : DataValues,
          order_by_column : {None, "primary_email"},
          order_ascending : BOOLEAN]

\* What the method called builds.
Built(call) ==
    CASE call.kind = "insert" ->
            _dynamic_insert_query(call.table, call.column_values)
      [] call.kind = "delete" ->
            _dynamic_delete_query(call.table, call.where_conditions)
      [] call.kind = "update" ->
            _dynamic_update_query(call.table, call.column_values,
                                  call.where_conditions)
      [] call.kind = "select" ->
            _get_collection_query(call.table, call.filter_column,
                                  call.get_column, call.filter_value,
                                  call.order_by_column, call.order_ascending)

InitSql ==
    /\ migrations_dir = <<[version |-> 1, fail_at |-> 0]>>
    /\ expected_sqlite_user_version = 1
    /\ file = MigratedFile
    /\ connection = "open"
    /\ last = [op |-> "none", raised |-> FALSE, pre |-> file,
               mig |-> NoMigration]
    /\ db = EmptyTables
    /\ obj = NoObject
    /\ steps = 0
    /\ \E call \in SqlCalls : elast = [op |-> "call", call |-> call]

\* The method builds its statement and hands it to execute.
BuildStatement ==
    /\ elast.op = "call"
    /\ elast' = [op |-> "execute", call |-> elast.call,
                 query |-> Built(elast.call).query,
                 parameters |-> Built(elast.call).parameters]
    /\ UNCHANGED <<db, obj, steps, migration_vars>>

NextSql == BuildStatement

SpecSql == InitSql /\ [][NextSql]_vars

\* The dictionary with every value replaced by v.
Revalued(items, v) == [i \in DOMAIN items |-> <<items[i][1], v>>]

\* The call with the same names and v for every value.
SameNames(call, v) ==
    CASE call.kind = "insert" ->
            [call EXCEPT !.column_values = Revalued(@, v)]
      [] call.kind = "delete" ->
            [call EXCEPT !.where_conditions = Revalued(@, v)]
      [] call.kind = "update" ->
            [call EXCEPT !.column_values = Revalued(@, v),
                         !.where_conditions = Revalued(@, v)]
      [] call.kind = "select" -> [call EXCEPT !.filter_value = v]

\* The values passed by a call.
ValuesOf(call) ==
    CASE call.kind = "insert" -> {i[2] : i \in Range(call.column_values)}
      [] call.kind = "delete" -> {i[2] : i \in Range(call.where_conditions)}
      [] call.kind = "update" ->
            {i[2] : i \in Range(call.column_values)
                       \cup Range(call.where_conditions)}
      [] call.kind = "select" -> {call.filter_value}

\* C26: no piece of a statement text is a value of the call, every value is
\* among the bound parameters, and the call with the same names and other
\* values builds the same text.
ValuesOnlyBound ==
    elast.op = "execute" =>
        /\ \A v \in ValuesOf(elast.call) :
              /\ v \notin Range(elast.query)
              /\ \E p \in elast.parameters : p[Len(p)] = v
        /\ \A v \in DataValues :
              Built(SameNames(elast.call, v)).query = elast.query

\* An update that sets and compares texts with quotes was built.
ValuesOnlyBoundWitness ==
    /\ elast.op = "execute"
    /\ elast.call.kind = "update"
    /\ Len(elast.call.column_values) = MaxColumns
    /\ ValuesOf(elast.call) = {"x' or '1'='1"}

\* ---------------------------------------------------------------------
\* Properties of the statements of one save.

\* The old_items that save() takes for a collection: the empty tuple for a
\* new entity, the list kept in _db_values, or the result of a select.
BaselineItems(o, tables, collection) ==
    IF o.id = None
    THEN {<<>>}
    ELSE IF collection.name \in DOMAIN o.db_values
         THEN {o.db_values[collection.name]}
         ELSE {l.value : l \in _load_collection(o, tables, collection)}

\* The statements of a log on one table, in their order.
RECURSIVE LogOn(_, _)
LogOn(log, table) ==
    IF log = <<>>
    THEN <<>>
    ELSE (IF log[1].table = table THEN <<log[1]>> ELSE <<>>)
            \o LogOn(Tail(log), table)

\* A save() of an entity whose email_addresses were touched and are the
\* sequence that save() takes as old_items.
SavedIdentical ==
    /\ elast.op = "save"
    /\ Emails.name \in DOMAIN elast.pre_obj.new_values
    /\ elast.pre_obj.new_values[Emails.name]
          \in BaselineItems(elast.pre_obj, elast.pre_db, Emails)

IsMarker(statement, v) ==
    /\ statement.kind = "update"
    /\ DOMAIN statement.column_values = {Emails.primary_column}
    /\ statement.column_values[Emails.primary_column] = v

\* The statements of one collection are the diff operations, then at most
\* one clear of the marker, then the set of the marker, and the set finds
\* a row in the table it is executed on.
OrderedOnExistingRow(issued, table) ==
    LET n == Len(issued)
    IN /\ n >= 1
       /\ IsMarker(issued[n], True)
       /\ \A i \in 1..(n - 1) :
             /\ ~IsMarker(issued[i], True)
             /\ IsMarker(issued[i], None) => i = n - 1
       /\ \E r \in BagToSet(table) : Matches(r, issued[n].where_conditions)

\* C28: a save() that completed and reconciled a non-empty list of the
\* primary-marked collection issued the diff operations, then the clear of
\* the marker, then its set, and the row of the set existed.
MarkerSetAfterDiffOnExistingRow ==
    (SavedEmails /\ elast.pre_obj.new_values[Emails.name] # <<>>) =>
        OrderedOnExistingRow(LogOn(elast.log, Emails.table),
                             elast.work[Emails.table])

\* C29: after a save() that raised, the entity has the id, the scalar
\* baseline and the collection baselines it had before the call.
FailedSaveKeepsTracking ==
    (elast.op = "save" /\ elast.raised) =>
        /\ obj.id = elast.pre_obj.id
        /\ \A c \in Range(Person.columns) :
              /\ c \in DOMAIN obj.db_values
                    <=> c \in DOMAIN elast.pre_obj.db_values
              /\ DictGet(obj.db_values, c)
                    = DictGet(elast.pre_obj.db_values, c)
        /\ \A n \in CollectionNames \cap DOMAIN elast.pre_obj.db_values :
              obj.db_values[n] = elast.pre_obj.db_values[n]

\* ---------------------------------------------------------------------
\* The list objects of one collection.  _new_values and _db_values hold
\* references to lists; heap gives the items of each list, new_ref and
\* db_ref are the lists that the two dicts hold for the collection (0 for
\* no entry), and held are the lists that the caller has a reference to.

TrackedCollection == Person.collections[1]

Tracked(o) == o @@ [heap |-> <<>>, new_ref |-> 0, db_ref |-> 0, held |-> {}]

\* The two dicts as the heap shows them.
Sync(o) ==
    LET name == TrackedCollection.name
    IN [o EXCEPT
          !.new_values = IF o.new_ref # 0
                         THEN DictSet(@, name, o.heap[o.new_ref])
                         ELSE DictPop(@, name),
          !.db_values = IF o.db_ref # 0
                        THEN DictSet(@, name, o.heap[o.db_ref])
                        ELSE DictPop(@, name)]

\* The lists that no dict refers to are collected; the others are numbered
\* in their order.
Collected(o) ==
    LET refs == {o.new_ref, o.db_ref} \ {0}
        rank(r) == IF r = 0 THEN 0 ELSE Cardinality({q \in refs : q <= r})
    IN [o EXCEPT
          !.heap = [i \in 1..Cardinality(refs) |->
                       o.heap[CHOOSE r \in refs : rank(r) = i]],
          !.new_ref = rank(@),
          !.db_ref = rank(@),
          !.held = {rank(r) : r \in @ \cap refs}]

\* A dict entry bound to the same list, in place of a copy.
list_same(heap, ref) == [heap |-> heap, ref |-> ref]

\* list.copy(): a new list with the same items
list_copy(heap, ref) ==
    [heap |-> Append(heap, heap[ref]), ref |-> Len(heap) + 1]

\* What the caller may do to a list in place: append, pop, clear.
Mutations(items, list) ==
    {Append(list, i) : i \in {j \in items : Len(list) < MaxItems}}
       \cup {SubSeq(list, 1, Len(list) - 1) : k \in {1} \cap DOMAIN list}
       \cup {<<>> : k \in {1} \cap DOMAIN list}

InitTracked ==
    /\ migrations_dir = <<[version |-> 1, fail_at |-> 0]>>
    /\ expected_sqlite_user_version = 1
    /\ file = MigratedFile
    /\ connection = "open"
    /\ last = [op |-> "none", raised |-> FALSE, pre |-> file,
               mig |-> NoMigration]
    /\ db \in InitialStores
    /\ obj \in {Tracked(Constructed(None))}
                  \cup {Tracked(o) :
                          o \in UNION {_load(Constructed(id), db) :
                                         id \in PersonIds}}
    /\ elast = NoCall
    /\ steps = 0

\* value = person.aliases
ReadList ==
    /\ Step
    /\ LET collection == TrackedCollection
       IN IF obj.new_ref = 0
          THEN IF obj.id # None
               THEN \E l \in _load_collection(obj, db, collection) :
                      LET loaded == Append(l.obj.heap, l.value)
                          copy == list_copy(loaded, Len(loaded))
                      IN obj' = Collected(Sync(
                                   [l.obj EXCEPT !.heap = copy.heap,
                                                 !.db_ref = Len(loaded),
                                                 !.new_ref = copy.ref,
                                                 !.held = @ \cup {copy.ref}]))
               ELSE LET heap == Append(obj.heap, <<>>)
                    IN obj' = Collected(Sync(
                                 [obj EXCEPT !.heap = heap,
                                             !.new_ref = Len(heap),
                                             !.held = @ \cup {Len(heap)}]))
          ELSE obj' = [obj EXCEPT !.held = @ \cup {obj.new_ref}]
    /\ elast' = Call("read_list", FALSE)
    /\ UNCHANGED db

\* person.aliases = value, with a list that the caller keeps
AssignList ==
    /\ Step
    /\ \E value \in Lists(ItemsOf(TrackedCollection)) :
         LET heap == Append(obj.heap, value)
         IN obj' = Collected(Sync([obj EXCEPT !.heap = heap,
                                              !.new_ref = Len(heap),
                                              !.held = @ \cup {Len(heap)}]))
    /\ elast' = Call("assign_list", FALSE)
    /\ UNCHANGED db

\* value.append(item), value.pop() or value.clear() on a list the caller has
MutateList ==
    /\ Step
    /\ \E ref \in obj.held :
         \E list \in Mutations(ItemsOf(TrackedCollection), obj.heap[ref]) :
            obj' = Sync([obj EXCEPT !.heap[ref] = list])
    /\ elast' = [Call("mutate_list", FALSE) EXCEPT !.pre_obj = obj]
    /\ UNCHANGED db

\* person.save() with no statement rejected for its values
SaveTracked ==
    /\ Step
    /\ \E out \in save(obj, db, 0) :
         /\ db' = out.tables
         /\ obj' = IF out.raised \/ obj.new_ref = 0
                   THEN out.obj
                   ELSE LET copy == list_copy(out.obj.heap, out.obj.new_ref)
                        IN Collected(Sync([out.obj EXCEPT
                                             !.heap = copy.heap,
                                             !.db_ref = copy.ref]))
         /\ elast' = [op |-> "save", raised |-> out.raised,
                      pre_db |-> db, pre_obj |-> obj,
                      log |-> out.log, work |-> out.work, queries |-> 0]

NextTracked ==
    (SetScalar \/ ReadList \/ AssignList \/ MutateList \/ SaveTracked)
       /\ UNCHANGED migration_vars

SpecTracked == InitTracked /\ [][NextTracked]_vars

\* C30: a mutation in place of a list that the caller has, the one returned
\* by the getter or the one it assigned, leaves the entry of the collection
\* in _db_values as it was, and the list of that entry is not one the
\* caller has.
BaselineIsolated ==
    LET name == TrackedCollection.name
    IN /\ obj.db_ref \notin obj.held
       /\ elast.op = "mutate_list" =>
             /\ name \in DOMAIN obj.db_values
                   <=> name \in DOMAIN elast.pre_obj.db_values
             /\ DictGet(obj.db_values, name)
                   = DictGet(elast.pre_obj.db_values, name)

\* After the save() of a new entity completed, the caller mutated the list
\* it had assigned, which now differs from the entry in _db_values.
BaselineIsolatedWitness ==
    LET name == TrackedCollection.name
    IN /\ elast.op = "mutate_list"
       /\ elast.pre_obj.id = None
       /\ elast.pre_obj.db_ref # 0
       /\ elast.pre_obj.new_ref \in elast.pre_obj.held
       /\ elast.pre_obj.db_values[name] = elast.pre_obj.new_values[name]
       /\ obj.db_values[name] # obj.new_values[name]
       /\ obj.db_values[name] # <<>>

====
